---- MODULE Spec2Model ----
(***************************************************************************)
(* Model of the reviews backend (netlify/functions): the create-review     *)
(* handler (addReview.js and its older variant), the rerank handler        *)
(* (autoPinTopReviews.js), the list handler (getReviews.js), the daily     *)
(* job (scheduled-pin-reviews.mjs) and the reviews table they share.       *)
(*                                                                         *)
(* Scores are kept in tenths: 0.3 is 3, 0.5 is 5, 0.7 is 7, -0.5 is -5.    *)
(* A classifier text is a sequence of tokens (code fences, newlines, one   *)
(* JSON value, other characters) together with the value the "obj" token   *)
(* stands for; "fence" is three backquotes, "fence_json" three backquotes  *)
(* followed by json.  A review's id is its position in the table.          *)
(***************************************************************************)
EXTENDS Integers, Sequences, FiniteSets, TLC

\* reviews: the table; resp: the answer of the last request; call: what the
\* last request met on its way; sched: the daily job's position; pre: the
\* table as it was when the last answer was delivered (history); inflight:
\* the rerank invocations that run side by side, each between two awaits
VARIABLES reviews, resp, call, sched, pre, inflight

vars == <<reviews, resp, call, sched, pre, inflight>>

(***************************************************************************)
(* Bounds                                                                  *)
(***************************************************************************)
MaxReviews == 1
MaxReturned == 4

(***************************************************************************)
(* Program constants (tenths)                                              *)
(***************************************************************************)
ApproveBelow == 3
FlagFrom == 7
DefaultSafety == 5
LegacyDefaultSafety == 0
DefaultSentiment == 0
DefaultAction == "flag"

(***************************************************************************)
(* Classifier texts                                                        *)
(***************************************************************************)
FenceJson == "fence_json"
Fence == "fence"
NL == "nl"
Obj == "obj"
Junk == "junk"

RECURSIVE FilterSeq(_, _)
FilterSeq(s, drop) ==
  IF s = <<>> THEN <<>>
  ELSE IF Head(s) \in drop THEN FilterSeq(Tail(s), drop)
       ELSE <<Head(s)>> \o FilterSeq(Tail(s), drop)

\* JSON.parse of a token sequence: whitespace around the value is skipped,
\* anything else beside exactly one value makes it throw (null).
safeJSON(toks) ==
  LET t == FilterSeq(toks, {NL})
  IN  IF t = <<Obj>> THEN [ok |-> TRUE] ELSE [ok |-> FALSE]

\* String.prototype.trim on the text
RECURSIVE TrimLeft(_)
TrimLeft(toks) ==
  IF toks # <<>> /\ Head(toks) = NL THEN TrimLeft(Tail(toks)) ELSE toks

RECURSIVE TrimRight(_)
TrimRight(toks) ==
  IF toks # <<>> /\ toks[Len(toks)] = NL
  THEN TrimRight(SubSeq(toks, 1, Len(toks) - 1))
  ELSE toks

Trim(toks) == TrimRight(TrimLeft(toks))

\* text.replace of every json fence (three backquotes and json), with the
\* newline after it when there is one, by the empty string
RECURSIVE ReplaceFenceJson(_)
ReplaceFenceJson(toks) ==
  IF toks = <<>> THEN <<>>
  ELSE IF Head(toks) = FenceJson
       THEN IF Len(toks) > 1 /\ toks[2] = NL
            THEN ReplaceFenceJson(Tail(Tail(toks)))
            ELSE ReplaceFenceJson(Tail(toks))
       ELSE <<Head(toks)>> \o ReplaceFenceJson(Tail(toks))

\* text.replace of every fence (three backquotes), with the newline after it
\* when there is one, by the empty string: of a json fence the letters stay
RECURSIVE ReplaceFence(_)
ReplaceFence(toks) ==
  IF toks = <<>> THEN <<>>
  ELSE IF Head(toks) = Fence
       THEN IF Len(toks) > 1 /\ toks[2] = NL
            THEN ReplaceFence(Tail(Tail(toks)))
            ELSE ReplaceFence(Tail(toks))
       ELSE IF Head(toks) = FenceJson
            THEN <<Junk>> \o ReplaceFence(Tail(toks))
            ELSE <<Head(toks)>> \o ReplaceFence(Tail(toks))

\* autoPinTopReviews.js: "Clean up markdown code blocks if present"
cleanText(toks) ==
  LET t == Trim(toks)
  IN  IF t # <<>> /\ Head(t) = FenceJson
      THEN ReplaceFence(ReplaceFenceJson(t))
      ELSE IF t # <<>> /\ Head(t) = Fence
           THEN ReplaceFence(t)
           ELSE t

(***************************************************************************)
(* Values the requests and the classifier draw from                        *)
(***************************************************************************)
BusinessIds == {1, 2}
SafetyScores == {1, 3, 7, 9}
SentimentScores == {-5, 8}
Actions == {"allow", "flag", "block"}

\* the JSON object of a single-review answer; a field that is absent (or
\* null) has its has_ flag FALSE
MkObj(hs, s, hn, n, ha, a) ==
  [has_safety |-> hs, safety_score |-> s,
   has_sentiment |-> hn, sentiment_score |-> n,
   has_action |-> ha, action |-> a]

EmptyObj == MkObj(FALSE, 0, FALSE, 0, FALSE, "")

FullObjs ==
  {MkObj(TRUE, s, TRUE, n, TRUE, a) :
     s \in SafetyScores, n \in SentimentScores, a \in Actions}

PartialObjs ==
  {MkObj(hs, IF hs THEN s ELSE 0, hn, IF hn THEN n ELSE 0,
         ha, IF ha THEN a ELSE "") :
     hs \in BOOLEAN, s \in SafetyScores, hn \in BOOLEAN,
     n \in SentimentScores, ha \in BOOLEAN, a \in Actions}

Text(toks, obj) == [toks |-> toks, obj |-> obj]

FencedJson(obj) == Text(<<FenceJson, NL, Obj, NL, Fence>>, obj)
FencedPlain(obj) == Text(<<Fence, NL, Obj, NL, Fence>>, obj)
Bare(obj) == Text(<<Obj>>, obj)

SingleTexts ==
  {Text(<<>>, EmptyObj), Text(<<Junk>>, EmptyObj), Text(<<NL>>, EmptyObj)}
  \cup {Bare(o) : o \in PartialObjs}
  \cup {Text(<<Obj, Junk>>, o) : o \in {MkObj(TRUE, 1, TRUE, 8, TRUE, "allow")}}
  \cup {FencedJson(o) : o \in FullObjs}
  \cup {FencedPlain(o) : o \in {MkObj(TRUE, 1, TRUE, 8, TRUE, "allow"),
                                 MkObj(TRUE, 9, TRUE, -5, TRUE, "block")}}

\* what the provider answers: the HTTP status class, and a body that is not
\* JSON, carries an error field, carries no candidate, or carries a text
Reply(ok, body, text) == [ok |-> ok, body |-> body, text |-> text]

NoText == Text(<<>>, EmptyObj)

SingleReplies ==
  {Reply(ok, b, NoText) :
     ok \in BOOLEAN, b \in {"nonjson", "error", "nocandidates"}}
  \cup {Reply(TRUE, "text", t) : t \in SingleTexts}

NoCall == Reply(TRUE, "none", NoText)

GoodRequest(b) ==
  [method |-> "POST", body_json |-> TRUE, business_id |-> b,
   reviewer_name |-> "Asha", phone |-> "5550100",
   content |-> "Great service!", secret_set |-> TRUE, secret_match |-> TRUE]

Requests ==
  {GoodRequest(1),
   [GoodRequest(2) EXCEPT !.secret_set = FALSE, !.secret_match = FALSE],
   [GoodRequest(1) EXCEPT !.method = "GET"],
   [GoodRequest(1) EXCEPT !.body_json = FALSE],
   [GoodRequest(1) EXCEPT !.business_id = 0],
   [GoodRequest(1) EXCEPT !.reviewer_name = ""],
   [GoodRequest(1) EXCEPT !.phone = ""],
   [GoodRequest(1) EXCEPT !.content = ""],
   [GoodRequest(1) EXCEPT !.secret_match = FALSE],
   [GoodRequest(1) EXCEPT !.content = "", !.secret_match = FALSE]}

(***************************************************************************)
(* The reviews table                                                       *)
(***************************************************************************)
\* supabase.from("reviews").insert([row]): the handler names seven columns;
\* id, created_at and pinned are left to the table, which numbers the rows
\* and defaults pinned to false
StoreInsert(table, row) ==
  Append(table,
         [id |-> Len(table) + 1, created_at |-> Len(table) + 1,
          pinned |-> FALSE,
          business_id |-> row.business_id,
          reviewer_name |-> row.reviewer_name, phone |-> row.phone,
          content |-> row.content, status |-> row.status,
          sentiment_score |-> row.sentiment_score,
          is_positive |-> row.is_positive])

(***************************************************************************)
(* The daily job's position: not running, in its loop over the businesses  *)
(* it enumerated, or returned                                              *)
(***************************************************************************)
\* uniqueBusinessIds: the businesses enumerated; todo: those the loop has
\* not completed; results: the entries pushed; failed: the businesses whose
\* rerank did not answer 2xx with a JSON body
SchedState(pc, uniqueBusinessIds, todo, results, failed) ==
  [pc |-> pc, uniqueBusinessIds |-> uniqueBusinessIds, todo |-> todo,
   results |-> results, failed |-> failed]

SchedIdle == SchedState("idle", <<>>, <<>>, <<>>, {})

(***************************************************************************)
(* The rerank invocations in flight: where each is, what it selected, how  *)
(* its two updates went and what it answered                               *)
(***************************************************************************)
Procs == {1, 2}

Run(pc, b, ids, unpin, pin, code) ==
  [pc |-> pc, business_id |-> b, topReviewIds |-> ids,
   unpin |-> unpin, pin |-> pin, code |-> code]

NoRun == Run("idle", 0, <<>>, "none", "none", 0)

NoRuns == [p \in Procs |-> NoRun]

(***************************************************************************)
(* Create review: addReview.js and its older variant                       *)
(***************************************************************************)
\* geminiData?.candidates?.[0]?.content?.parts?.[0]?.text || "{}"
modelText(g) ==
  IF g.body = "text" /\ g.text.toks # <<>> THEN g.text ELSE Bare(EmptyObj)

\* safeJSON(modelText) || {}
result(text) ==
  IF safeJSON(text.toks).ok THEN text.obj ELSE EmptyObj

\* result.safety_score ?? default, result.sentiment_score ?? 0,
\* result.action ?? "flag"
Analysis(obj, defaultSafety) ==
  [safety_score |-> IF obj.has_safety THEN obj.safety_score ELSE defaultSafety,
   sentiment_score |->
     IF obj.has_sentiment THEN obj.sentiment_score ELSE DefaultSentiment,
   recommended_action |-> IF obj.has_action THEN obj.action ELSE DefaultAction]

StatusInclusive(action, safety) ==
  IF action = "allow" /\ safety <= ApproveBelow THEN "approved"
  ELSE IF action = "block" \/ safety >= FlagFrom THEN "flagged"
  ELSE "pending"

\* "Determine status based on Gemini's recommendation"
Status(action, safety) ==
  IF action = "allow" /\ safety < ApproveBelow THEN "approved"
  ELSE IF action = "block" \/ safety >= FlagFrom THEN "flagged"
  ELSE "pending"

IsPositiveInclusive(sentiment) == sentiment >= 0

IsPositive(sentiment) == sentiment > 0

\* the row handed to insert
Row(req, status, sentiment) ==
  [business_id |-> req.business_id, reviewer_name |-> req.reviewer_name,
   phone |-> req.phone, content |-> req.content, status |-> status,
   sentiment_score |-> sentiment, is_positive |-> IsPositive(sentiment)]

MissingFields(req) ==
  \/ req.business_id = 0
  \/ req.reviewer_name = ""
  \/ req.phone = ""
  \/ req.content = ""

BadSecret(req) == req.secret_set /\ ~req.secret_match

\* the checks made before the classifier is called: 0 when all pass
Rejected(req) ==
  IF req.method # "POST" THEN 405
  ELSE IF ~req.body_json THEN 500
  ELSE IF MissingFields(req) THEN 400
  ELSE IF BadSecret(req) THEN 401
  ELSE 0

Err(code, error) == [code |-> code, error |-> error]

RejectedError(req) ==
  IF req.method # "POST" THEN "Method not allowed"
  ELSE IF ~req.body_json THEN "Internal error"
  ELSE IF MissingFields(req) THEN "Missing required fields"
  ELSE "Invalid webhook secret"

NoAnalysis ==
  [safety_score |-> 0, sentiment_score |-> 0, recommended_action |-> ""]

Call(op, req, g, classified, analysis, insert) ==
  [op |-> op, req |-> req, gemini |-> g, classified |-> classified,
   analysis |-> analysis, insert |-> insert]

\* a request turned away before the classifier is called
Reject(op, req) ==
  /\ Rejected(req) # 0
  /\ resp' = Err(Rejected(req), RejectedError(req))
  /\ call' = Call(op, req, NoCall, FALSE, NoAnalysis, "none")
  /\ UNCHANGED reviews

StoreKeepsFailedRow(op, req, g, a, insertError, withAnalysis) ==
  LET status == Status(a.recommended_action, a.safety_score)
  IN  /\ reviews' = StoreInsert(reviews, Row(req, status, a.sentiment_score))
      /\ resp' = IF insertError THEN Err(500, "insert error")
                 ELSE IF withAnalysis
                      THEN [code |-> 200, ok |-> TRUE, status |-> status,
                            analysis |-> a]
                      ELSE [code |-> 200, ok |-> TRUE, status |-> status]
      /\ call' = Call(op, req, g, TRUE, a,
                      IF insertError THEN "error" ELSE "ok")

\* status decision, insert and the answer, once the analysis is known
Store(op, req, g, a, insertError, withAnalysis) ==
  LET status == Status(a.recommended_action, a.safety_score)
  IN  IF insertError
      THEN /\ resp' = Err(500, "insert error")
           /\ call' = Call(op, req, g, TRUE, a, "error")
           /\ UNCHANGED reviews
      ELSE /\ reviews' =
                StoreInsert(reviews, Row(req, status, a.sentiment_score))
           /\ resp' = IF withAnalysis
                      THEN [code |-> 200, ok |-> TRUE, status |-> status,
                            analysis |-> a]
                      ELSE [code |-> 200, ok |-> TRUE, status |-> status]
           /\ call' = Call(op, req, g, TRUE, a, "ok")

\* netlify/functions/addReview.js: one invocation of the handler, for a
\* request of reqs and a provider answer of replies
handlerAddReviewOn(reqs, replies) ==
  \E req \in reqs :
    \/ Reject("addReview", req)
    \/ /\ Rejected(req) = 0
       /\ \E g \in replies :
            IF g.body = "nonjson"
            THEN /\ resp' = Err(500, "Internal error")
                 /\ call' = Call("addReview", req, g, FALSE, NoAnalysis,
                                 "none")
                 /\ UNCHANGED reviews
            ELSE IF g.body = "error"
            THEN /\ resp' = Err(500, "Gemini API error")
                 /\ call' = Call("addReview", req, g, FALSE, NoAnalysis,
                                 "none")
                 /\ UNCHANGED reviews
            ELSE \E insertError \in BOOLEAN :
                   Store("addReview", req, g,
                         Analysis(result(modelText(g)), DefaultSafety),
                         insertError, TRUE)

handlerAddReview == handlerAddReviewOn(Requests, SingleReplies)

addReview ==
  /\ Len(reviews) < MaxReviews
  /\ UNCHANGED <<sched, pre, inflight>>
  /\ handlerAddReview

\* the older variant of addReview.js: no check of the error field, no
\* analysis in the answer, safety defaults to 0
handlerAddReviewLegacyOn(reqs, replies) ==
  \E req \in reqs :
    \/ Reject("addReviewLegacy", req)
    \/ /\ Rejected(req) = 0
       /\ \E g \in replies :
            IF g.body = "nonjson"
            THEN /\ resp' = Err(500, "Internal error")
                 /\ call' = Call("addReviewLegacy", req, g, FALSE,
                                 NoAnalysis, "none")
                 /\ UNCHANGED reviews
            ELSE \E insertError \in BOOLEAN :
                   Store("addReviewLegacy", req, g,
                         Analysis(result(modelText(g)),
                                  LegacyDefaultSafety),
                         insertError, FALSE)

handlerAddReviewLegacy ==
  handlerAddReviewLegacyOn(Requests, SingleReplies)

addReviewLegacy ==
  /\ Len(reviews) < MaxReviews
  /\ UNCHANGED <<sched, pre, inflight>>
  /\ handlerAddReviewLegacy

NoResp == [code |-> 0]

\* no request has been served yet
IdleCall == Call("none", GoodRequest(1), NoCall, FALSE, NoAnalysis, "none")

InitCreate ==
  /\ reviews = <<>>
  /\ resp = NoResp
  /\ call = IdleCall
  /\ sched = SchedIdle
  /\ pre = reviews
  /\ inflight = NoRuns

NextCreate == addReview \/ addReviewLegacy

SpecCreate == InitCreate /\ [][NextCreate]_vars

(***************************************************************************)
(* Properties of create review                                             *)
(***************************************************************************)
CreateOps == {"addReview", "addReviewLegacy"}

Inserted == call.op \in CreateOps /\ call.insert = "ok"

LastReview == reviews[Len(reviews)]

\* C1: the status create-review assigns is the three-rule policy applied in
\* order to the classification (safety_score, sentiment_score, action):
\* approved when action is allow and safety_score < 0.3, otherwise flagged
\* when action is block or safety_score >= 0.7, otherwise pending; so 0.3
\* with allow is not approved, 0.7 is flagged for every action, block is
\* flagged for every safety_score, and sentiment_score plays no part.
C1_StatusIsPolicy ==
  Inserted =>
    LET a == call.analysis
        st == LastReview.status
        rule1 == a.recommended_action = "allow" /\ a.safety_score < 3
        rule2 == a.recommended_action = "block" \/ a.safety_score >= 7
    IN  /\ resp.status = st
        /\ rule1 => st = "approved"
        /\ (~rule1 /\ rule2) => st = "flagged"
        /\ (~rule1 /\ ~rule2) => st = "pending"
        /\ (a.safety_score = 3 /\ a.recommended_action = "allow")
             => st # "approved"
        /\ a.safety_score = 7 => st = "flagged"
        /\ a.recommended_action = "block" => st = "flagged"

C1_Witness ==
  /\ Inserted
  /\ call.analysis.safety_score = 3
  /\ call.analysis.recommended_action = "allow"
  /\ LastReview.status = "pending"

ProviderError(g) == g.body # "none" /\ (~g.ok \/ g.body = "error")

\* C6: when the classifier call of create-review ends in a provider-reported
\* error (a non-2xx response or an error field in the body) the request is
\* answered 500 and no review is persisted.
C6_ProviderErrorIs500 ==
  (call.op \in CreateOps /\ ProviderError(call.gemini)) =>
    (resp.code = 500 /\ call.insert # "ok")

\* the text is empty or is not JSON even with its code fences taken off
Malformed(text) == text.toks = <<>> \/ ~safeJSON(cleanText(text.toks)).ok

LacksFields(text) ==
  ~text.obj.has_safety \/ ~text.obj.has_sentiment \/ ~text.obj.has_action

\* C7: when the classifier's text for a single review is empty, not valid
\* JSON, or lacks fields, create-review does not fail: the missing values
\* take the fallback 0.5, 0, "flag", the policy yields pending and the
\* review is stored pending; so a review is approved only when the
\* classifier explicitly returned allow with a safety_score below 0.3.
C7_FallbackIsPending ==
  Inserted =>
    LET g == call.gemini
        a == call.analysis
        o == g.text.obj
        explicit == /\ g.body = "text"
                    /\ o.has_action /\ o.action = "allow"
                    /\ o.has_safety /\ o.safety_score < 3
    IN  /\ (g.body = "nocandidates" \/ Malformed(g.text))
             => (a = [safety_score |-> 5, sentiment_score |-> 0,
                      recommended_action |-> "flag"]
                 /\ LastReview.status = "pending")
        /\ (g.body = "text" /\ ~Malformed(g.text) /\ LacksFields(g.text))
             => (/\ ~o.has_safety => a.safety_score = 5
                 /\ ~o.has_sentiment => a.sentiment_score = 0
                 /\ ~o.has_action => a.recommended_action = "flag"
                 /\ LastReview.status = "pending")
        /\ LastReview.status = "approved" => explicit

IsFenced(toks) ==
  toks \in {<<FenceJson, NL, Obj, NL, Fence>>, <<Fence, NL, Obj, NL, Fence>>}

\* C8: in single-review mode a classifier answer wrapped in code-fence
\* markers is stripped before parsing and yields the same classification,
\* and so the same stored status, as the same JSON without the fence.
C8_FencedSameAsUnfenced ==
  (Inserted /\ call.gemini.body = "text" /\ IsFenced(call.gemini.text.toks))
    => LET o == call.gemini.text.obj
           unfenced == Analysis(result(Bare(o)), DefaultSafety)
       IN  /\ call.analysis = unfenced
           /\ LastReview.status =
                Status(unfenced.recommended_action, unfenced.safety_score)

\* C9: a successful create-review (200) adds exactly one review, with the
\* submitted business_id, reviewer_name, phone and content, the status the
\* policy decides on the classification, the classifier's sentiment_score,
\* is_positive = (sentiment_score > 0) and pinned = false.
C9_SuccessAddsOneReview ==
  [][(call'.op \in CreateOps /\ resp'.code = 200) =>
       LET a == call'.analysis
           req == call'.req
           policy == IF a.recommended_action = "allow" /\ a.safety_score < 3
                     THEN "approved"
                     ELSE IF a.recommended_action = "block"
                             \/ a.safety_score >= 7
                          THEN "flagged" ELSE "pending"
       IN  /\ Len(reviews') = Len(reviews) + 1
           /\ SubSeq(reviews', 1, Len(reviews)) = reviews
           /\ reviews'[Len(reviews')] =
                [id |-> Len(reviews) + 1, created_at |-> Len(reviews) + 1,
                 pinned |-> FALSE, business_id |-> req.business_id,
                 reviewer_name |-> req.reviewer_name, phone |-> req.phone,
                 content |-> req.content, status |-> policy,
                 sentiment_score |-> a.sentiment_score,
                 is_positive |-> (a.sentiment_score > 0)]
           /\ resp'.status = policy]_vars

C9_Witness ==
  /\ Inserted
  /\ resp.code = 200
  /\ call.analysis = [safety_score |-> 1, sentiment_score |-> 8,
                      recommended_action |-> "allow"]
  /\ LastReview.status = "approved"
  /\ LastReview.is_positive
  /\ ~LastReview.pinned
  /\ LastReview.content = "Great service!"

\* C10: create-review reports no partial success: a request either ends 200
\* with the review persisted with a status, or ends with an error answer
\* (405 wrong method, 400 missing field, 401 bad secret, 500) and the store
\* is exactly as it was before the request.
C10_NoPartialSuccess ==
  [][call'.op \in CreateOps =>
       \/ /\ resp'.code = 200
          /\ Len(reviews') = Len(reviews) + 1
          /\ SubSeq(reviews', 1, Len(reviews)) = reviews
          /\ reviews'[Len(reviews')].status
               \in {"approved", "flagged", "pending"}
          /\ reviews'[Len(reviews')].status = resp'.status
       \/ /\ resp'.code \in {400, 401, 405, 500}
          /\ reviews' = reviews
          /\ resp'.code = 405 <=> call'.req.method # "POST"
          /\ resp'.code = 400 =>
               (call'.req.business_id = 0 \/ call'.req.reviewer_name = ""
                \/ call'.req.phone = "" \/ call'.req.content = "")
          /\ resp'.code = 401 =>
               (call'.req.secret_set /\ ~call'.req.secret_match)]_vars

C10_Witness ==
  /\ call.op = "addReview"
  /\ call.insert = "error"
  /\ resp.code = 500
  /\ reviews = <<>>

(***************************************************************************)
(* Rerank: autoPinTopReviews.js                                            *)
(***************************************************************************)
MkReview(id, b, status, sentiment) ==
  [id |-> id, created_at |-> id, pinned |-> FALSE, business_id |-> b,
   reviewer_name |-> "Asha", phone |-> "5550100",
   content |-> "Great service!", status |-> status,
   sentiment_score |-> sentiment, is_positive |-> IsPositive(sentiment)]

\* tables as create-review leaves them: nothing pinned yet
SeedOneBusiness ==
  <<MkReview(1, 1, "approved", 8), MkReview(2, 1, "approved", 8),
    MkReview(3, 1, "approved", -5), MkReview(4, 1, "approved", 0)>>

SeedMixed ==
  <<MkReview(1, 1, "approved", 8), MkReview(2, 1, "pending", 0),
    MkReview(3, 2, "approved", 8), MkReview(4, 3, "flagged", -5)>>

SeedStores == {SeedOneBusiness, SeedMixed}

\* ids the classifier may name: those of the table and one that no row has
ReturnedIds == 1 .. (Len(SeedOneBusiness) + 1)

RerankBusinessIds == {1, 2, 3}

RECURSIVE Increasing(_, _)
\* the strictly increasing sequences over ids of length at most n
Increasing(ids, n) ==
  IF n = 0 \/ ids = {} THEN {<<>>}
  ELSE {<<>>} \cup
       UNION {{<<i>> \o t : t \in Increasing({j \in ids : j > i}, n - 1)} :
                i \in ids}

ReturnedLists ==
  Increasing(ReturnedIds, MaxReturned) \cup {<<i, i>> : i \in ReturnedIds}

\* the JSON object of a top-3 answer
TopObj(has, ids) == [has_ids |-> has, top_review_ids |-> ids]

EmptyTopObj == TopObj(FALSE, <<>>)

TopTexts ==
  {Text(<<>>, EmptyTopObj), Text(<<Junk>>, EmptyTopObj),
   Text(<<Obj>>, EmptyTopObj)}
  \cup {Text(<<Obj>>, TopObj(TRUE, l)) : l \in ReturnedLists}
  \cup {Text(<<FenceJson, NL, Obj, NL, Fence>>, TopObj(TRUE, l)) :
          l \in {<<1>>, <<1, 2, 3>>}}
  \cup {Text(<<Fence, NL, Obj, NL, Fence>>, TopObj(TRUE, l)) : l \in {<<1>>}}

TopReplies ==
  {Reply(ok, b, Text(<<>>, EmptyTopObj)) :
     ok \in BOOLEAN, b \in {"nonjson", "error", "nocandidates"}}
  \cup {Reply(TRUE, "text", t) : t \in TopTexts}

NoTopCall == Reply(TRUE, "none", Text(<<>>, EmptyTopObj))

RerankRequest(b) == [method |-> "POST", body_json |-> TRUE, business_id |-> b]

RerankRequests ==
  {RerankRequest(b) : b \in RerankBusinessIds}
  \cup {[RerankRequest(1) EXCEPT !.method = "GET"],
        [RerankRequest(1) EXCEPT !.body_json = FALSE],
        RerankRequest(0)}

\* select * where business_id = b and status = approved
Eligible(table, b) ==
  {i \in 1 .. Len(table) :
     table[i].business_id = b /\ table[i].status = "approved"}

UnpinAndPend(table, b) ==
  [i \in 1 .. Len(table) |->
     IF table[i].business_id = b
     THEN [table[i] EXCEPT !.pinned = FALSE, !.status = "pending"]
     ELSE table[i]]

\* update pinned = false where business_id = b
Unpin(table, b) ==
  [i \in 1 .. Len(table) |->
     IF table[i].business_id = b
     THEN [table[i] EXCEPT !.pinned = FALSE]
     ELSE table[i]]

Range(s) == {s[i] : i \in 1 .. Len(s)}

PinToggle(table, ids) ==
  [i \in 1 .. Len(table) |->
     IF table[i].id \in Range(ids)
     THEN [table[i] EXCEPT !.pinned = ~table[i].pinned]
     ELSE table[i]]

\* update pinned = true where id in ids
Pin(table, ids) ==
  [i \in 1 .. Len(table) |->
     IF table[i].id \in Range(ids)
     THEN [table[i] EXCEPT !.pinned = TRUE]
     ELSE table[i]]

\* modelText of the top-3 answer
topModelText(g) ==
  IF g.body = "text" /\ g.text.toks # <<>> THEN g.text
  ELSE Text(<<Obj>>, EmptyTopObj)

\* safeJSON(cleanText) || {} and then result.top_review_ids || []
topReviewIds(g) ==
  LET text == topModelText(g)
      obj == IF safeJSON(cleanText(text.toks)).ok THEN text.obj
             ELSE EmptyTopObj
  IN  IF obj.has_ids THEN obj.top_review_ids ELSE <<>>

RerankRejected(req) ==
  IF req.method # "POST" THEN 405
  ELSE IF ~req.body_json THEN 500
  ELSE IF req.business_id = 0 THEN 400
  ELSE 0

\* again: the invocation before this one was the same request and met the
\* same classifier answer and store outcomes
RerankCall(req, stage, g, ids, unpin, pin) ==
  [op |-> "autoPinTopReviews", business_id |-> req.business_id,
   stage |-> stage, gemini |-> g, topReviewIds |-> ids,
   unpin |-> unpin, pin |-> pin,
   again |-> /\ call.op = "autoPinTopReviews"
             /\ call.business_id = req.business_id
             /\ call.stage = stage /\ call.gemini = g
             /\ call.unpin = unpin /\ call.pin = pin]

RepinRestores(req, g, ids, unpinError, pinError) ==
  LET unpinned == IF unpinError THEN reviews
                  ELSE Unpin(reviews, req.business_id)
      unpin == IF unpinError THEN "error" ELSE "ok"
  IN  IF Len(ids) > 0
      THEN IF pinError
           THEN /\ reviews' = reviews
                /\ resp' = Err(500, "pin error")
                /\ call' = RerankCall(req, "pin", g, ids, unpin, "error")
           ELSE /\ reviews' = Pin(unpinned, ids)
                /\ resp' = [code |-> 200, ok |-> TRUE,
                            pinnedCount |-> Len(ids),
                            pinnedReviewIds |-> ids]
                /\ call' = RerankCall(req, "done", g, ids, unpin, "ok")
      ELSE /\ ~pinError
           /\ reviews' = unpinned
           /\ resp' = [code |-> 200, ok |-> TRUE, pinnedCount |-> 0,
                       pinnedReviewIds |-> ids]
           /\ call' = RerankCall(req, "done", g, ids, unpin, "none")

\* phases (a) and (b) and the answer, once the selection is known
Repin(req, g, ids, unpinError, pinError) ==
  LET unpinned == IF unpinError THEN reviews
                  ELSE Unpin(reviews, req.business_id)
      unpin == IF unpinError THEN "error" ELSE "ok"
  IN  IF Len(ids) > 0
      THEN IF pinError
           THEN /\ reviews' = unpinned
                /\ resp' = Err(500, "pin error")
                /\ call' = RerankCall(req, "pin", g, ids, unpin, "error")
           ELSE /\ reviews' = Pin(unpinned, ids)
                /\ resp' = [code |-> 200, ok |-> TRUE,
                            pinnedCount |-> Len(ids),
                            pinnedReviewIds |-> ids]
                /\ call' = RerankCall(req, "done", g, ids, unpin, "ok")
      ELSE /\ ~pinError
           /\ reviews' = unpinned
           /\ resp' = [code |-> 200, ok |-> TRUE, pinnedCount |-> 0,
                       pinnedReviewIds |-> ids]
           /\ call' = RerankCall(req, "done", g, ids, unpin, "none")

NoReviewsUnpins(req) ==
  /\ resp' = [code |-> 200, ok |-> TRUE, pinnedCount |-> 0]
  /\ call' = RerankCall(req, "empty", NoTopCall, <<>>, "none", "none")
  /\ reviews' = Unpin(reviews, req.business_id)

\* the answer when the business has no approved review
NoReviews(req) ==
  /\ resp' = [code |-> 200, ok |-> TRUE, pinnedCount |-> 0]
  /\ call' = RerankCall(req, "empty", NoTopCall, <<>>, "none", "none")
  /\ UNCHANGED reviews

\* one invocation of the handler for the request req
autoPinFor(req) ==
  \/ /\ RerankRejected(req) # 0
     /\ resp' = Err(RerankRejected(req), "rejected")
     /\ call' = RerankCall(req, "rejected", NoTopCall, <<>>, "none", "none")
     /\ UNCHANGED reviews
  \/ /\ RerankRejected(req) = 0
     /\ resp' = Err(500, "fetch error")
     /\ call' = RerankCall(req, "fetch", NoTopCall, <<>>, "none", "none")
     /\ UNCHANGED reviews
  \/ /\ RerankRejected(req) = 0
     /\ Eligible(reviews, req.business_id) = {}
     /\ NoReviews(req)
  \/ /\ RerankRejected(req) = 0
     /\ Eligible(reviews, req.business_id) # {}
     /\ \E g \in TopReplies :
          IF g.body \in {"nonjson", "error"}
          THEN /\ resp' = Err(500, IF g.body = "error"
                                   THEN "Gemini API error"
                                   ELSE "Internal error")
               /\ call' = RerankCall(req, "classifier", g, <<>>,
                                     "none", "none")
               /\ UNCHANGED reviews
          ELSE \E unpinError \in BOOLEAN, pinError \in BOOLEAN :
                 Repin(req, g, topReviewIds(g), unpinError, pinError)

\* netlify/functions/autoPinTopReviews.js
autoPinTopReviews ==
  /\ UNCHANGED <<sched, pre, inflight>>
  /\ \E req \in RerankRequests : autoPinFor(req)

InitRerank ==
  /\ reviews \in SeedStores
  /\ resp = NoResp
  /\ call = IdleCall
  /\ sched = SchedIdle
  /\ pre = reviews
  /\ inflight = NoRuns

NextRerank == autoPinTopReviews

SpecRerank == InitRerank /\ [][NextRerank]_vars

(***************************************************************************)
(* List: getReviews.js                                                     *)
(***************************************************************************)
Digits == <<"0", "1", "2", "3", "4", "5", "6", "7", "8", "9">>

IsDigit(c) == \E d \in 1 .. Len(Digits) : Digits[d] = c

DigitValue(c) == (CHOOSE d \in 1 .. Len(Digits) : Digits[d] = c) - 1

RECURSIVE LeadingDigits(_)
\* the longest prefix of str made of digits
LeadingDigits(str) ==
  IF str = <<>> \/ ~IsDigit(Head(str)) THEN <<>>
  ELSE <<Head(str)>> \o LeadingDigits(Tail(str))

RECURSIVE DecimalValue(_)
DecimalValue(ds) ==
  IF ds = <<>> THEN 0
  ELSE 10 * DecimalValue(SubSeq(ds, 1, Len(ds) - 1))
       + DigitValue(ds[Len(ds)])

\* parseInt of a string of decimal digits and other characters: the value of
\* the leading digits, NaN when there is none
parseInt(str) ==
  LET ds == LeadingDigits(str)
  IN  [nan |-> ds = <<>>, n |-> DecimalValue(ds)]

\* the newReviewId query parameter; <<>> is an absent or empty parameter
NewReviewIds ==
  {<<>>, <<"1">>, <<"2">>, <<"3">>, <<"4">>, <<"5">>, <<"x">>,
   <<"2", "x">>, <<"0", "3">>, <<"1", "2">>}

ListRequest(method, b, new) ==
  [method |-> method, business_id |-> b, newReviewId |-> new]

ListRequests ==
  {ListRequest("GET", b, new) : b \in RerankBusinessIds, new \in NewReviewIds}
  \cup {ListRequest("POST", 1, <<>>), ListRequest("GET", 0, <<"1">>)}

\* order by pinned desc, created_at desc: a comes before b
Before(a, b) ==
  \/ a.pinned /\ ~b.pinned
  \/ a.pinned = b.pinned /\ a.created_at > b.created_at

RECURSIVE SortRows(_, _)
\* the rows of table at the positions in S, in the order of Before
SortRows(table, S) ==
  IF S = {} THEN <<>>
  ELSE LET first == CHOOSE i \in S :
                      \A j \in S \ {i} : Before(table[i], table[j])
       IN  <<table[first]>> \o SortRows(table, S \ {first})

fetchReviewsAnyStatus(table, b) ==
  SortRows(table, {i \in 1 .. Len(table) : table[i].business_id = b})

\* select * where business_id = b and status = approved
\* order by pinned desc, created_at desc
fetchReviews(table, b) == SortRows(table, Eligible(table, b))

\* reviews.findIndex(r => r.id === parseInt(newReviewId)); 0 stands for -1
findIndex(rows, new) ==
  LET p == parseInt(new)
      hits == {k \in 1 .. Len(rows) : ~p.nan /\ rows[k].id = p.n}
  IN  IF hits = {} THEN 0
      ELSE CHOOSE k \in hits : \A h \in hits : k <= h

orderedReviewsSwap(rows, new) ==
  LET newReviewIndex == findIndex(rows, new)
  IN  IF new # <<>> /\ newReviewIndex > 0
      THEN [k \in 1 .. Len(rows) |->
              IF k = 1 THEN rows[newReviewIndex]
              ELSE IF k = newReviewIndex THEN rows[1]
              ELSE rows[k]]
      ELSE rows

\* the matching review first, then the slice before it and the slice after
orderedReviews(rows, new) ==
  LET newReviewIndex == findIndex(rows, new)
  IN  IF new # <<>> /\ newReviewIndex > 0
      THEN <<rows[newReviewIndex]>>
           \o SubSeq(rows, 1, newReviewIndex - 1)
           \o SubSeq(rows, newReviewIndex + 1, Len(rows))
      ELSE rows

ListRejected(req) ==
  IF req.method # "GET" THEN 405
  ELSE IF req.business_id = 0 THEN 400
  ELSE 0

ListCall(req, stage, rows) ==
  [op |-> "getReviews", business_id |-> req.business_id,
   newReviewId |-> req.newReviewId, stage |-> stage, fetched |-> rows]

\* netlify/functions/getReviews.js: one invocation of the handler
handlerGetReviews ==
  \E req \in ListRequests :
    \/ /\ ListRejected(req) # 0
       /\ resp' = Err(ListRejected(req), "rejected")
       /\ call' = ListCall(req, "rejected", <<>>)
    \/ /\ ListRejected(req) = 0
       /\ resp' = Err(500, "fetch error")
       /\ call' = ListCall(req, "fetch", <<>>)
    \/ /\ ListRejected(req) = 0
       /\ LET rows == fetchReviews(reviews, req.business_id)
              ordered == orderedReviews(rows, req.newReviewId)
          IN  /\ resp' = [code |-> 200, ok |-> TRUE, reviews |-> ordered,
                          count |-> Len(ordered)]
              /\ call' = ListCall(req, "done", rows)

getReviews ==
  /\ handlerGetReviews
  /\ UNCHANGED <<reviews, sched, pre, inflight>>

(***************************************************************************)
(* Properties of rerank                                                    *)
(***************************************************************************)
Reranked == call.op = "autoPinTopReviews"

\* the run got as far as the two-phase update
Repinned == Reranked /\ call.stage \in {"pin", "done"}

PinnedOf(table, b) ==
  {i \in 1 .. Len(table) : table[i].business_id = b /\ table[i].pinned}

\* C2: rerank sets pinned = true only on returned ids that belong to the
\* business's eligible set (approved, same business_id), so in every
\* reachable state a pinned review is approved.
C2_PinnedIsApproved ==
  \A i \in 1 .. Len(reviews) :
    reviews[i].pinned => reviews[i].status = "approved"

\* C3: rerank caps the applied set at 3: after any rerank of a business
\* returns, at most 3 reviews of that business are pinned and the reported
\* pinnedCount is at most 3.
C3_AtMostThreePinned ==
  Reranked =>
    /\ Cardinality(PinnedOf(reviews, call.business_id)) <= 3
    /\ resp.code = 200 => resp.pinnedCount <= 3

\* C4: if phase (a) of rerank fails with a store error, rerank aborts before
\* phase (b): no review is set to pinned = true in that run and the store
\* error is reported to the caller as an error response.
C4_UnpinErrorAborts ==
  [][(call'.op = "autoPinTopReviews" /\ call'.unpin = "error") =>
       /\ call'.pin = "none"
       /\ resp'.code = 500
       /\ \A i \in 1 .. Len(reviews) :
            reviews'[i].pinned => reviews[i].pinned]_vars

\* C5: after any rerank of a business returns, with success or with a store
\* error in either phase, every pinned review of the business is in that
\* run's selected ids: no pin of an earlier run survives beside new ones.
C5_NoStalePins ==
  Repinned =>
    \A i \in PinnedOf(reviews, call.business_id) :
      reviews[i].id \in Range(call.topReviewIds)

\* C12: rerank for a business with zero approved reviews (the request is
\* valid and the fetch of the approved reviews succeeds) is a no-op: it
\* answers pinnedCount = 0, calls no classifier and attempts no store update,
\* so every review (the business's non-approved ones too) is unchanged.
C12_NoEligibleIsNoOp ==
  [][(/\ call'.op = "autoPinTopReviews"
      /\ call'.stage \notin {"rejected", "fetch"}
      /\ Eligible(reviews, call'.business_id) = {}) =>
       /\ resp'.code = 200 /\ resp'.pinnedCount = 0
       /\ call'.gemini = NoTopCall
       /\ call'.unpin = "none" /\ call'.pin = "none"
       /\ reviews' = reviews]_vars

\* a pinned, non-approved review of the business survives its rerank
C12_Witness ==
  /\ Reranked /\ sched.pc = "idle" /\ call.stage = "empty"
  /\ PinnedOf(pre, call.business_id) # {}
  /\ Eligible(pre, call.business_id) = {}
  /\ reviews = pre
  /\ resp.code = 200 /\ resp.pinnedCount = 0

\* C13: if phase (a) of rerank succeeds and phase (b) fails, rerank answers
\* with the store error, restores no previous pin and leaves every review of
\* the business with pinned = false.
C13_PinErrorLeavesUnpinned ==
  (Reranked /\ call.unpin = "ok" /\ call.pin = "error") =>
    /\ resp.code = 500
    /\ PinnedOf(reviews, call.business_id) = {}

\* the business had pins before the run whose phase (b) failed
C13_Witness ==
  /\ Reranked /\ sched.pc = "idle"
  /\ call.unpin = "ok" /\ call.pin = "error"
  /\ PinnedOf(pre, call.business_id) # {}
  /\ PinnedOf(reviews, call.business_id) = {}
  /\ resp.code = 500

\* C14: rerank is idempotent: a second run for the same business right after
\* a first one, with the same classifier answer and no store failure in
\* either, leaves every review as the first run left it and answers with the
\* same pinnedCount and pinnedReviewIds.
C14_RerankIdempotent ==
  [][(/\ call'.op = "autoPinTopReviews" /\ call'.again
      /\ call'.stage = "done" /\ call'.unpin = "ok") =>
       /\ reviews' = reviews
       /\ resp'.code = 200 /\ resp.code = 200
       /\ resp'.pinnedCount = resp.pinnedCount
       /\ resp'.pinnedReviewIds = resp.pinnedReviewIds]_vars

\* a second run that pinned reviews, one of them of another business
C14_Witness ==
  /\ Reranked /\ call.again /\ call.stage = "done" /\ call.unpin = "ok"
  /\ resp.pinnedCount >= 2
  /\ \E i \in 1 .. Len(reviews) :
       reviews[i].pinned /\ reviews[i].business_id # call.business_id
  /\ PinnedOf(reviews, call.business_id) # {}

\* C19: when the classifier call of rerank ends in a provider-reported error
\* (a non-2xx response or an error field in the body) rerank answers with an
\* error and updates nothing: every pinned flag is what it was before.
C19_ProviderErrorKeepsPins ==
  [][(call'.op = "autoPinTopReviews" /\ ProviderError(call'.gemini)) =>
       (resp'.code = 500 /\ reviews' = reviews)]_vars

\* the classifier answered, and its text is empty, not JSON, or has no
\* top_review_ids
TopMalformed(g) ==
  /\ g.ok /\ g.body \in {"text", "nocandidates"}
  /\ (Malformed(g.text) \/ ~g.text.obj.has_ids)

\* C20: when the classifier's top-3 text is malformed, empty or lacks
\* top_review_ids, rerank takes the selection as empty, not as an error:
\* phase (a) still runs, so every review of the business ends with
\* pinned = false, and the answer is a success with pinnedCount = 0.
C20_MalformedIsEmptySelection ==
  (Reranked /\ TopMalformed(call.gemini)) =>
    /\ resp.code = 200 /\ resp.pinnedCount = 0
    /\ PinnedOf(reviews, call.business_id) = {}

\* C22: on every successful rerank answer, pinnedCount is the length of
\* pinnedReviewIds and the number of reviews of the business that are pinned
\* in the table when the request returns, and pinnedReviewIds has no
\* duplicate id.
C22_CountIsPinned ==
  (Reranked /\ resp.code = 200) =>
    LET ids == IF "pinnedReviewIds" \in DOMAIN resp
               THEN resp.pinnedReviewIds ELSE <<>>
    IN  /\ resp.pinnedCount = Len(ids)
        /\ resp.pinnedCount
             = Cardinality(PinnedOf(reviews, call.business_id))
        /\ Cardinality(Range(ids)) = Len(ids)

(***************************************************************************)
(* Rerank invocations side by side: each invocation is the handler of      *)
(* autoPinTopReviews.js cut at its awaits, and the store calls of the      *)
(* invocations interleave                                                  *)
(***************************************************************************)
ConcurrentRequests == {RerankRequest(b) : b \in {1, 3}}

\* the classifier answers met side by side: an error, a text that is not
\* JSON, and selections of one to three ids
ConcurrentReplies ==
  {Reply(TRUE, "error", Text(<<>>, EmptyTopObj)),
   Reply(TRUE, "text", Text(<<Junk>>, EmptyTopObj))}
  \cup {Reply(TRUE, "text", Text(<<Obj>>, TopObj(TRUE, l))) :
          l \in {<<1>>, <<4>>, <<1, 2>>, <<3, 4>>, <<1, 2, 3>>, <<2, 3, 4>>}}

\* lines 36-156: the fetch of the approved reviews and the classifier call
rerankSelect(p) ==
  /\ inflight[p].pc = "idle"
  /\ UNCHANGED <<reviews, resp, call, sched, pre>>
  /\ \E req \in ConcurrentRequests :
       LET b == req.business_id
       IN  \/ inflight' = [inflight EXCEPT
                             ![p] = Run("done", b, <<>>, "none", "none", 500)]
           \/ /\ Eligible(reviews, b) = {}
              /\ inflight' = [inflight EXCEPT
                                ![p] = Run("done", b, <<>>, "none", "none",
                                           200)]
           \/ /\ Eligible(reviews, b) # {}
              /\ \E g \in ConcurrentReplies :
                   IF g.body \in {"nonjson", "error"}
                   THEN inflight' =
                          [inflight EXCEPT
                             ![p] = Run("done", b, <<>>, "none", "none", 500)]
                   ELSE inflight' =
                          [inflight EXCEPT
                             ![p] = Run("unpin", b, topReviewIds(g), "none",
                                        "none", 0)]

\* lines 158-166 and 169, 188-200: phase (a); with an empty selection the
\* answer follows
rerankUnpin(p) ==
  /\ inflight[p].pc = "unpin"
  /\ UNCHANGED <<resp, call, sched, pre>>
  /\ LET run == inflight[p]
         next == IF Len(run.topReviewIds) > 0 THEN "pin" ELSE "done"
         code == IF Len(run.topReviewIds) > 0 THEN 0 ELSE 200
     IN  \E unpinError \in BOOLEAN :
           /\ reviews' = IF unpinError THEN reviews
                         ELSE Unpin(reviews, run.business_id)
           /\ inflight' =
                [inflight EXCEPT
                   ![p] = [run EXCEPT
                             !.pc = next,
                             !.unpin = IF unpinError THEN "error" ELSE "ok",
                             !.code = code]]

\* lines 169-200: phase (b) and the answer
rerankPin(p) ==
  /\ inflight[p].pc = "pin"
  /\ UNCHANGED <<resp, call, sched, pre>>
  /\ LET run == inflight[p]
     IN  \E pinError \in BOOLEAN :
           IF pinError
           THEN /\ UNCHANGED reviews
                /\ inflight' =
                     [inflight EXCEPT
                        ![p] = [run EXCEPT !.pc = "done", !.pin = "error",
                                           !.code = 500]]
           ELSE /\ reviews' = Pin(reviews, run.topReviewIds)
                /\ inflight' =
                     [inflight EXCEPT
                        ![p] = [run EXCEPT !.pc = "done", !.pin = "ok",
                                           !.code = 200]]

InitConcurrent ==
  /\ reviews \in SeedStores
  /\ resp = NoResp
  /\ call = IdleCall
  /\ sched = SchedIdle
  /\ pre = reviews
  /\ inflight = NoRuns

NextConcurrent ==
  \E p \in Procs : rerankSelect(p) \/ rerankUnpin(p) \/ rerankPin(p)

SpecConcurrent == InitConcurrent /\ [][NextConcurrent]_vars

\* both invocations have answered 200 for the business b after both of
\* their updates succeeded
BothPinned(b) ==
  \A p \in Procs :
    /\ inflight[p].pc = "done" /\ inflight[p].business_id = b
    /\ inflight[p].unpin = "ok" /\ inflight[p].pin = "ok"
    /\ inflight[p].code = 200

\* C21: when two rerank invocations for the same business run side by side
\* and their unpin and pin updates interleave in any order, once both have
\* returned the pinned reviews of the business are the selection of one of
\* the two (never the union of both), so at most 3 of them are pinned.
C21_ConcurrentRerankOneSelection ==
  \A b \in RerankBusinessIds :
    BothPinned(b) =>
      LET pinned == {reviews[i].id : i \in PinnedOf(reviews, b)}
          ofBusiness == {reviews[i].id :
                           i \in {j \in 1 .. Len(reviews) :
                                    reviews[j].business_id = b}}
      IN  /\ \E p \in Procs :
               pinned = Range(inflight[p].topReviewIds) \cap ofBusiness
          /\ Cardinality(pinned) <= 3

(***************************************************************************)
(* The whole backend: requests are served one at a time, each answer is    *)
(* delivered before the next request is taken                              *)
(***************************************************************************)
SeedSingle == <<MkReview(1, 1, "approved", 8)>>

Idle == resp = NoResp /\ sched.pc = "idle"

\* the create requests served beside the other operations: a valid one for
\* each business and an invalid one
ServedRequests ==
  {req \in Requests : Rejected(req) = 0}
  \cup {[GoodRequest(1) EXCEPT !.content = ""]}

\* and the provider answers they meet: an error, a text that is not JSON, an
\* allow and a block
ServedReplies ==
  {Reply(TRUE, "error", NoText), Reply(TRUE, "text", Text(<<Junk>>, EmptyObj)),
   Reply(TRUE, "text", Bare(MkObj(TRUE, 1, TRUE, 8, TRUE, "allow"))),
   Reply(TRUE, "text", Bare(MkObj(TRUE, 9, TRUE, 8, TRUE, "block")))}

serveAddReview ==
  /\ Idle
  /\ Len(reviews) <= MaxReviews
  /\ handlerAddReviewOn(ServedRequests, ServedReplies)
  /\ UNCHANGED <<sched, pre, inflight>>

serveAddReviewLegacy ==
  /\ Idle
  /\ Len(reviews) <= MaxReviews
  /\ handlerAddReviewLegacyOn(ServedRequests, ServedReplies)
  /\ UNCHANGED <<sched, pre, inflight>>

serveAutoPinTopReviews == Idle /\ autoPinTopReviews

serveGetReviews == Idle /\ getReviews

(***************************************************************************)
(* Daily job: scheduled-pin-reviews.mjs                                    *)
(***************************************************************************)
RECURSIVE Orders(_)
\* the sequences that hold each element of S once
Orders(S) ==
  IF S = {} THEN {<<>>}
  ELSE UNION {{<<b>> \o t : t \in Orders(S \ {b})} : b \in S}

\* select business_id where status = approved, as a set
ApprovedBusinesses(table) ==
  {table[i].business_id :
     i \in {j \in 1 .. Len(table) : table[j].status = "approved"}}

SchedCall(b, stage) ==
  [op |-> "scheduled-pin-reviews", business_id |-> b, stage |-> stage]

\* the entry pushed for an answer of the rerank endpoint
ResultEntry(b, response) ==
  [business_id |-> b,
   success |-> response.code \in 200 .. 299,
   pinnedCount |-> IF "pinnedCount" \in DOMAIN response
                   THEN response.pinnedCount ELSE 0]

\* the enumeration of the businesses; the store gives the rows in no stated
\* order
schedEnumerate ==
  /\ Idle
  /\ UNCHANGED <<reviews, pre, inflight>>
  /\ \/ /\ resp' = Err(500, "enumerate error")
        /\ call' = SchedCall(0, "enumerate")
        /\ sched' = SchedState("done", <<>>, <<>>, <<>>, {})
     \/ \E ids \in Orders(ApprovedBusinesses(reviews)) :
          /\ UNCHANGED resp
          /\ call' = SchedCall(0, "loop")
          /\ sched' = SchedState("loop", ids, ids, <<>>, {})

\* await fetch(rerank endpoint) for the next business: the fetch throws
\* (the endpoint cannot be reached) and the catch answers 500, or the rerank
\* handler runs and its answer comes back
schedFetch ==
  /\ sched.pc = "loop"
  /\ sched.todo # <<>>
  /\ UNCHANGED <<pre, inflight>>
  /\ LET b == Head(sched.todo)
     IN  \/ /\ resp' = Err(500, "unreachable")
            /\ call' = SchedCall(b, "unreachable")
            /\ sched' = [sched EXCEPT !.pc = "done", !.failed = @ \cup {b}]
            /\ UNCHANGED reviews
         \/ /\ autoPinFor(RerankRequest(b))
            /\ sched' = [sched EXCEPT !.pc = "fetched"]

\* await response.json() and results.push: a body that is not JSON throws
\* and the catch answers 500; otherwise the entry is pushed and the loop
\* goes on
schedPush(b, unparsable) ==
  IF unparsable
  THEN /\ resp' = Err(500, "unparsable")
       /\ call' = SchedCall(b, "unparsable")
       /\ sched' = [sched EXCEPT !.pc = "done", !.failed = @ \cup {b}]
  ELSE /\ resp' = NoResp
       /\ call' = SchedCall(b, "pushed")
       /\ sched' = [sched EXCEPT
                      !.pc = "loop",
                      !.todo = Tail(@),
                      !.results = Append(@, ResultEntry(b, resp)),
                      !.failed = IF resp.code \in 200 .. 299
                                 THEN @ ELSE @ \cup {b}]

schedResult ==
  /\ sched.pc = "fetched"
  /\ UNCHANGED <<reviews, pre, inflight>>
  /\ \E unparsable \in BOOLEAN : schedPush(Head(sched.todo), unparsable)

\* the loop is over: 200 with the results
schedReturn ==
  /\ sched.pc = "loop"
  /\ sched.todo = <<>>
  /\ resp' = [code |-> 200, results |-> sched.results]
  /\ call' = SchedCall(0, "done")
  /\ sched' = [sched EXCEPT !.pc = "done"]
  /\ UNCHANGED <<reviews, pre, inflight>>

\* the answer reaches the caller
deliver ==
  /\ resp # NoResp
  /\ sched.pc \in {"idle", "done"}
  /\ resp' = NoResp
  /\ call' = IdleCall
  /\ sched' = SchedIdle
  /\ pre' = reviews
  /\ UNCHANGED inflight
  /\ UNCHANGED reviews

Init ==
  /\ reviews \in SeedStores \cup {SeedSingle}
  /\ resp = NoResp
  /\ call = IdleCall
  /\ sched = SchedIdle
  /\ pre = reviews
  /\ inflight = NoRuns

Next ==
  \/ serveAddReview
  \/ serveAddReviewLegacy
  \/ serveAutoPinTopReviews
  \/ serveGetReviews
  \/ schedEnumerate
  \/ schedFetch
  \/ schedResult
  \/ schedReturn
  \/ deliver

Spec == Init /\ [][Next]_vars

(***************************************************************************)
(* Properties of the whole backend                                         *)
(***************************************************************************)
\* C11: a review's status is set once, at creation, and no operation changes
\* it afterwards; a review's pinned flag is changed only by rerank; list and
\* create-review modify no existing review.
C11_StatusOnceAndPinnedByRerank ==
  [][/\ Len(reviews') >= Len(reviews)
     /\ \A i \in 1 .. Len(reviews) :
          /\ reviews'[i].status = reviews[i].status
          /\ [reviews'[i] EXCEPT !.pinned = reviews[i].pinned] = reviews[i]
          /\ reviews'[i].pinned # reviews[i].pinned =>
               call'.op = "autoPinTopReviews"]_vars

\* a create-review served after a rerank had pinned the review in the table
C11_Witness ==
  /\ Inserted /\ Len(pre) >= 1 /\ Len(reviews) = Len(pre) + 1
  /\ pre[1].pinned
  /\ \A i \in 1 .. Len(pre) : reviews[i] = pre[i]

Listed == call.op = "getReviews" /\ resp.code = 200

IsOrdered(rows) ==
  \A i \in 1 .. Len(rows), j \in 1 .. Len(rows) :
    i < j => Before(rows[i], rows[j])

\* the approved reviews of the listed business that newReviewId names
Named ==
  LET new == parseInt(call.newReviewId)
  IN  {i \in Eligible(reviews, call.business_id) :
         call.newReviewId # <<>> /\ ~new.nan /\ reviews[i].id = new.n}

\* C15: list returns exactly the business's approved reviews, pinned first
\* and then by created_at descending; when newReviewId matches one of them
\* that review is at index 0 and the others keep their relative order; the
\* count is the number of approved reviews either way.
C15_ListOrder ==
  Listed =>
    LET out == resp.reviews
        approved == Eligible(reviews, call.business_id)
    IN  /\ resp.count = Len(out)
        /\ Len(out) = Cardinality(approved)
        /\ Range(out) = {reviews[i] : i \in approved}
        /\ IF Named = {} THEN IsOrdered(out)
           ELSE /\ \E i \in Named : out[1] = reviews[i]
                /\ IsOrdered(Tail(out))

\* an unpinned review named by newReviewId, third in the fetched order, is
\* listed before a pinned one
C15_Witness ==
  /\ Listed /\ Named # {}
  /\ Len(resp.reviews) >= 3
  /\ call.fetched[1] # resp.reviews[1]
  /\ call.fetched[2] # resp.reviews[1]
  /\ ~resp.reviews[1].pinned /\ resp.reviews[2].pinned

\* C16: list with a newReviewId that matches no fetched review (the id of a
\* pending or flagged review, of a review of another business, or of no
\* review) returns the reviews in the order pinned desc, created_at desc,
\* all of them approved, and never the review the id names.
C16_NoMatchKeepsOrder ==
  (Listed /\ call.newReviewId # <<>> /\ Named = {}) =>
    LET out == resp.reviews
        new == parseInt(call.newReviewId)
    IN  /\ IsOrdered(out)
        /\ \A k \in 1 .. Len(out) :
             /\ out[k].status = "approved"
             /\ out[k].business_id = call.business_id
             /\ ~new.nan => out[k].id # new.n

\* newReviewId names a pending review of the listed business, which has a
\* pinned approved review
C16_Witness ==
  /\ Listed /\ call.newReviewId # <<>> /\ Named = {}
  /\ \E i \in 1 .. Len(reviews) :
       /\ reviews[i].id = parseInt(call.newReviewId).n
       /\ reviews[i].business_id = call.business_id
       /\ reviews[i].status = "pending"
  /\ Len(resp.reviews) >= 1 /\ resp.reviews[1].pinned

\* C17: in a run of the daily job, the failure of rerank for one business
\* (an error answer, an unreachable endpoint, an answer that is not JSON)
\* does not stop the run: rerank is invoked for every remaining business and
\* the run answers with a result of success = false for the failed one.
C17_FailureDoesNotStopRun ==
  (sched.pc = "done" /\ sched.failed # {}) =>
    /\ sched.todo = <<>>
    /\ resp.code = 200
    /\ \A b \in sched.failed :
         \E k \in 1 .. Len(resp.results) :
           resp.results[k].business_id = b /\ ~resp.results[k].success

\* C18: a run of the daily job whose enumeration succeeded invokes rerank
\* once for each business that had an approved review when the run began,
\* for no other business, one after the other, and answers with exactly one
\* entry per such business.
C18_OncePerApprovedBusiness ==
  (sched.pc = "done" /\ call.stage # "enumerate") =>
    LET ids == sched.uniqueBusinessIds
    IN  /\ Range(ids) = {pre[i].business_id :
                           i \in {j \in 1 .. Len(pre) :
                                    pre[j].status = "approved"}}
        /\ Len(ids) = Cardinality(Range(ids))
        /\ sched.todo = <<>>
        /\ resp.code = 200
        /\ [k \in 1 .. Len(resp.results) |-> resp.results[k].business_id]
             = ids

====
